---------------------------- MODULE Spec2Model ----------------------------
(***************************************************************************)
(* A model of the EPUBCheck MCP server's invocation-and-result pipeline    *)
(* (src/src/epubcheck/runner.ts) and of its background version check       *)
(* (version-checker.ts, src/unnamed/part_002).                             *)
(*                                                                         *)
(* Three specifications share the module:                                  *)
(*   SpecArgs   buildArgs applied to every request of the option types;    *)
(*   SpecRun    concurrent runEpubCheck invocations, their subprocesses    *)
(*              and the temporary directory they share;                    *)
(*   SpecVC     checkForUpdatesAsync, the remote fetch it starts, the disk *)
(*              cache and the clock.                                       *)
(* JavaScript strings are TLA+ strings (\o is string concatenation), an    *)
(* absent optional field or a null is the value Undefined / Null.          *)
(***************************************************************************)
EXTENDS Integers, Sequences, FiniteSets, TLC

VARIABLES
    \* ---- SpecArgs: one call of buildArgs
    options,        \* the ValidateOptions passed to buildArgs
    outPath,        \* the jsonOutputPath passed to buildArgs
    args,           \* the argument vector it returned (<<>> before the call)
    built,          \* whether buildArgs has been called
    \* ---- SpecRun: concurrent runEpubCheck invocations
    jarEnv,         \* process.env.EPUBCHECK_JAR_PATH (Undefined when not set)
    jarFiles,       \* the jar locations that exist on disk
    tmpFiles,       \* the scratch directory: path -> text of the file at it
    uuidCalls,      \* how many times randomUUID() has been called
    run,            \* per invocation: its locals, subprocess, handler and promise
    \* ---- SpecVC: the background version check
    clock,                \* Date.now(), in ms
    diskCache,            \* the file VERSION_CACHE_FILE
    cacheDir,             \* whether the directory CACHE_DIR exists
    cachedLatestVersion,  \* version-checker.ts:15
    versionCheckPromise,  \* version-checker.ts:16: Null, or "pending"
    fetchStage,           \* where the async function waits: "none", "request", "body"
    closureVersion,       \* the currentVersion the async function closes over
    triggerCalls,         \* history: calls of checkForUpdatesAsync
    fetchCalls,           \* history: calls of fetch()
    fetchesDone,          \* history: fetch attempts that have concluded
    diskReads,            \* history: calls of loadCache
    thrown,               \* history: a call of checkForUpdatesAsync threw
    beforeFetch,          \* history: the in-memory version and the disk cache
                          \* when the last fetch started
    fetchReturned,        \* history: what the last fetchLatestVersion returned
    writeResult,          \* history: "written" or "failed" for the last call of
                          \* saveCache, "none" before the first
    notification,         \* the last call of getUpdateNotification and its result
    \* ---- SpecCmp: isUpdateAvailable on a pair of versions
    cmpCurrent,     \* a version string
    cmpLatest,      \* a version string, or Null
    cmpForward,     \* isUpdateAvailable(cmpCurrent, cmpLatest)
    cmpBackward,    \* isUpdateAvailable(cmpLatest, cmpCurrent)
    cmpDone,        \* whether the two calls have been made
    \* ---- SpecVer: getEpubCheckVersion calls
    cachedVersion,  \* runner.ts:15
    ver,            \* per call: its subprocess, its stdout and its promise
    jarLookups,     \* history: calls of getJarPath made by getEpubCheckVersion
    spawns,         \* history: subprocesses spawned by getEpubCheckVersion
    stdoutChunks    \* history: 'data' events on the stdout of those subprocesses

argsVars == <<options, outPath, args, built>>

runVars == <<jarEnv, jarFiles, tmpFiles, uuidCalls, run>>

vcVars == <<clock, diskCache, cacheDir, cachedLatestVersion, versionCheckPromise,
            fetchStage, closureVersion, triggerCalls, fetchCalls, fetchesDone,
            diskReads, thrown, beforeFetch, fetchReturned, writeResult, notification>>

cmpVars == <<cmpCurrent, cmpLatest, cmpForward, cmpBackward, cmpDone>>

verVars == <<cachedVersion, ver, jarLookups, spawns, stdoutChunks>>

vars == <<argsVars, runVars, vcVars, cmpVars, verVars>>

\* what the actions of one subsystem leave alone
notArgs == <<runVars, vcVars, cmpVars, verVars>>

notRun == <<argsVars, vcVars, cmpVars, verVars>>

notVC == <<argsVars, runVars, cmpVars, verVars>>

notCmp == <<argsVars, runVars, vcVars, verVars>>

\* what getEpubCheckVersion and its handlers leave alone; they read the jar
\* locations and call into the version checker
notVer == <<argsVars, runVars, cmpVars>>

-----------------------------------------------------------------------------
(* JavaScript values *)

\* an optional field that is not given
Undefined == "undefined"

\* JavaScript truthiness of a string-or-undefined value
Truthy(x) == x # Undefined /\ x # ""

\* the number of elements of seq that equal x
Count(seq, x) == Cardinality({i \in DOMAIN seq : seq[i] = x})

-----------------------------------------------------------------------------
(* types.ts: the request *)

ValidateMode == {"epub", "opf", "xhtml", "svg", "nav", "mo"}

ValidateProfile == {"default", "dict", "edupub", "idx", "preview"}

EpubVersion == {"2.0", "3.0"}

\* target paths of the requests
TargetPaths == {"book.epub", "OEBPS/content.opf"}

ValidateOptions ==
    [path : TargetPaths,
     mode : ValidateMode \cup {Undefined},
     profile : ValidateProfile \cup {Undefined},
     version : EpubVersion \cup {Undefined}]

-----------------------------------------------------------------------------
(* runner.ts: buildArgs *)

\* faulty variant: the mode flag is pushed for every given mode, "epub" included
buildArgs_ModeAlways(opts, jsonOutputPath) ==
    LET a1 == <<"--json", jsonOutputPath>>
        a2 == IF Truthy(opts.mode)
              THEN a1 \o <<"--mode", opts.mode>> ELSE a1
        a3 == IF Truthy(opts.profile) /\ opts.profile # "default"
              THEN a2 \o <<"--profile", opts.profile>> ELSE a2
        a4 == IF Truthy(opts.version) /\ Truthy(opts.mode) /\ opts.mode # "epub"
              THEN a3 \o <<"-v", opts.version>> ELSE a3
    IN  a4 \o <<opts.path>>

\* faulty variant: the version flag is pushed whenever a version is given
buildArgs_VersionAlways(opts, jsonOutputPath) ==
    LET a1 == <<"--json", jsonOutputPath>>
        a2 == IF Truthy(opts.mode) /\ opts.mode # "epub"
              THEN a1 \o <<"--mode", opts.mode>> ELSE a1
        a3 == IF Truthy(opts.profile) /\ opts.profile # "default"
              THEN a2 \o <<"--profile", opts.profile>> ELSE a2
        a4 == IF Truthy(opts.version)
              THEN a3 \o <<"-v", opts.version>> ELSE a3
    IN  a4 \o <<opts.path>>

\* faulty variant: the profile pair is pushed before the mode pair
buildArgs_ProfileFirst(opts, jsonOutputPath) ==
    LET a1 == <<"--json", jsonOutputPath>>
        a2 == IF Truthy(opts.profile) /\ opts.profile # "default"
              THEN a1 \o <<"--profile", opts.profile>> ELSE a1
        a3 == IF Truthy(opts.mode) /\ opts.mode # "epub"
              THEN a2 \o <<"--mode", opts.mode>> ELSE a2
        a4 == IF Truthy(opts.version) /\ Truthy(opts.mode) /\ opts.mode # "epub"
              THEN a3 \o <<"-v", opts.version>> ELSE a3
    IN  a4 \o <<opts.path>>

\* runner.ts buildArgs: the pushes in the order of the code
buildArgs(opts, jsonOutputPath) ==
    LET a1 == <<"--json", jsonOutputPath>>
        a2 == IF Truthy(opts.mode) /\ opts.mode # "epub"
              THEN a1 \o <<"--mode", opts.mode>> ELSE a1
        a3 == IF Truthy(opts.profile) /\ opts.profile # "default"
              THEN a2 \o <<"--profile", opts.profile>> ELSE a2
        a4 == IF Truthy(opts.version) /\ Truthy(opts.mode) /\ opts.mode # "epub"
              THEN a3 \o <<"-v", opts.version>> ELSE a3
    IN  a4 \o <<opts.path>>

-----------------------------------------------------------------------------
(* SpecArgs: buildArgs on every request *)

\* output-artifact paths handed to buildArgs in SpecArgs
ArgsOutPaths == {"/tmp/epubcheck-1.json"}

ArgsInit ==
    /\ options \in ValidateOptions
    /\ outPath \in ArgsOutPaths
    /\ args = <<>>
    /\ built = FALSE

\* the state of the buildArgs variables in the specifications that do not use them
ArgsQuiet ==
    /\ options = [path |-> "book.epub", mode |-> Undefined,
                  profile |-> Undefined, version |-> Undefined]
    /\ outPath = "/tmp/epubcheck-1.json"
    /\ args = <<>>
    /\ built = FALSE

CallBuildArgs ==
    /\ ~built
    /\ args' = buildArgs(options, outPath)
    /\ built' = TRUE
    /\ UNCHANGED <<options, outPath, notArgs>>

NextArgs == CallBuildArgs

-----------------------------------------------------------------------------
(* runner.ts: the environment of runEpubCheck *)

\* a bound: the number of runEpubCheck invocations of a behaviour
MaxInv == 2

\* a bound: the number of 'data' events a subprocess's stderr delivers
MaxStderrChunks == 1

Invocations == 1..MaxInv

\* os.tmpdir()
TmpDir == "/tmp"

\* dirname(fileURLToPath(import.meta.url)) and process.cwd()
ModuleDir == "/app/dist"

Cwd == "/work"

\* path.join of a directory and a file name
Join(dir, name) == dir \o "/" \o name

RECURSIVE LastIndexOf(_, _, _)
\* the last position <= i of character ch in string s, 0 when there is none
LastIndexOf(s, ch, i) ==
    IF i = 0 THEN 0
    ELSE IF SubSeq(s, i, i) = ch THEN i
    ELSE LastIndexOf(s, ch, i - 1)

\* path.dirname
Dirname(p) ==
    LET k == LastIndexOf(p, "/", Len(p))
    IN  IF k = 0 THEN "." ELSE IF k = 1 THEN "/" ELSE SubSeq(p, 1, k - 1)

RECURSIVE JoinWith(_, _)
\* Array.prototype.join
JoinWith(seq, sep) ==
    IF seq = <<>> THEN ""
    ELSE IF Len(seq) = 1 THEN seq[1]
    ELSE seq[1] \o sep \o JoinWith(Tail(seq), sep)

\* the locations getJarPath tries, in order (path.join resolves the "..")
PossiblePaths ==
    <<Join(Join(Dirname(ModuleDir), "bin"), "epubcheck.jar"),
      Join(Join(ModuleDir, "bin"), "epubcheck.jar"),
      Join(Join(Cwd, "bin"), "epubcheck.jar")>>

\* a value of the EPUBCHECK_JAR_PATH override
EnvJarPath == "/opt/epubcheck/epubcheck.jar"

\* the installations a behaviour starts from: the override and the jars on disk
JarConfigs ==
    {[env |-> Undefined, files |-> {}],
     [env |-> Undefined, files |-> {PossiblePaths[2], PossiblePaths[3]}],
     [env |-> EnvJarPath, files |-> {}]}

\* faulty variant: the search returns the last location that exists
getJarPath_LastHit(env, files) ==
    IF Truthy(env) THEN [ok |-> TRUE, value |-> env]
    ELSE LET hits == {k \in DOMAIN PossiblePaths : PossiblePaths[k] \in files}
         IN  IF hits # {}
             THEN [ok |-> TRUE,
                   value |-> PossiblePaths[CHOOSE k \in hits : \A h \in hits : k >= h]]
             ELSE [ok |-> FALSE,
                   value |-> "EPUBCheck JAR not found. Searched in: "
                             \o JoinWith(PossiblePaths, ", ")
                             \o ". Set EPUBCHECK_JAR_PATH environment variable or ensure bin/epubcheck.jar exists."]

\* getJarPath: the override when it is set, else the first location that
\* exists; ok = FALSE is the thrown Error, value its message
getJarPath(env, files) ==
    IF Truthy(env) THEN [ok |-> TRUE, value |-> env]
    ELSE LET hits == {k \in DOMAIN PossiblePaths : PossiblePaths[k] \in files}
         IN  IF hits # {}
             THEN [ok |-> TRUE,
                   value |-> PossiblePaths[CHOOSE k \in hits : \A h \in hits : k <= h]]
             ELSE [ok |-> FALSE,
                   value |-> "EPUBCheck JAR not found. Searched in: "
                             \o JoinWith(PossiblePaths, ", ")
                             \o ". Set EPUBCHECK_JAR_PATH environment variable or ensure bin/epubcheck.jar exists."]

\* the n-th value randomUUID() returns; a version-4 UUID carries 122 random
\* bits and the generator is taken to be collision-free: distinct calls return
\* distinct values
randomUUID(n) == "uuid" \o ToString(n)

\* faulty variant: the artifact is named after nothing that differs between invocations
jsonOutputPath_Fixed(uuid) == Join(TmpDir, "epubcheck-output.json")

\* runner.ts:48 the output-artifact path of an invocation
jsonOutputPath(uuid) == Join(TmpDir, "epubcheck-" \o uuid \o ".json")

\* the requests of the invocations of SpecRun
RunRequests ==
    {[path |-> "book.epub", mode |-> Undefined,
      profile |-> "default", version |-> Undefined],
     [path |-> "OEBPS/content.opf", mode |-> "opf",
      profile |-> Undefined, version |-> "3.0"]}

\* what the engine may write to its artifact: a well-formed document and a
\* truncated one
ArtifactTexts ==
    {"{\"messages\":[{\"ID\":\"RSC-005\",\"severity\":\"ERROR\"}]}",
     "{\"messages\":["}

\* no text: the engine has written nothing, the handler has read nothing
NoText == "<none>"

\* JSON.parse: ok = FALSE is the thrown SyntaxError, value its message;
\* otherwise value names the parsed document
JSONParse(text) ==
    IF text = "{\"messages\":[]}"
        THEN [ok |-> TRUE, value |-> "EpubCheckResult(no messages)"]
    ELSE IF text = "{\"messages\":[{\"ID\":\"RSC-005\",\"severity\":\"ERROR\"}]}"
        THEN [ok |-> TRUE, value |-> "EpubCheckResult(ERROR RSC-005)"]
    ELSE [ok |-> FALSE, value |-> "SyntaxError: Unexpected end of JSON input"]

\* the exit codes of a subprocess that ran
ExitCodes == {0, 1}

\* the code of the 'close' event that follows a failed spawn (-ENOENT)
SpawnErrno == 0 - 2

StderrChunks == {"Unable to access jarfile\n"}

SpawnErrors == {"spawn java ENOENT"}

\* the element of argv that follows flag, Undefined when flag is not in argv
ArgAfter(argv, flag) ==
    LET at == {k \in 1..(Len(argv) - 1) : argv[k] = flag}
    IN  IF at = {} THEN Undefined
        ELSE argv[(CHOOSE k \in at : \A h \in at : k <= h) + 1]

-----------------------------------------------------------------------------
(* runner.ts: runEpubCheck *)

Pending == [state |-> "pending", value |-> ""]

Fulfilled(v) == [state |-> "fulfilled", value |-> v]

Rejected(msg) == [state |-> "rejected", value |-> msg]

\* faulty variant: a later resolve/reject replaces the settled outcome
Settle_LastWins(outcome, result) == result

\* resolve/reject of the promise of runEpubCheck: only the first one settles it
Settle(outcome, result) == IF outcome.state = "pending" THEN result ELSE outcome

\* an invocation that has not been made; its options are a record, as the
\* options of a call are
NotCalled ==
    [call |-> "idle",
     opts |-> [path |-> Undefined, mode |-> Undefined, profile |-> Undefined,
               version |-> Undefined],
     jsonOutputPath |-> Undefined,
     argv |-> <<>>, cwd |-> Undefined, proc |-> "none", stderr |-> "",
     nData |-> 0, handler |-> "none", jsonContent |-> NoText,
     outcome |-> [state |-> "none", value |-> ""],
     \* history: what the engine wrote, what the 'close' handler saw
     wrote |-> NoText, closeCode |-> 0, sawExists |-> "unknown",
     unlinkCalled |-> FALSE, unlinked |-> FALSE]

\* faulty variant: a non-zero exit code is taken for a failed run
ArtifactFound_ExitCodeToo(exists, code) == exists /\ code = 0

\* runner.ts:66 the test of the 'close' handler: existsSync(jsonOutputPath)
ArtifactFound(exists, code) == exists

\* faulty variant: the diagnostic is always the exit code
NoOutputMessage_CodeOnly(stderr, code) ==
    "EPUBCheck failed to produce output: " \o ("exit code " \o ToString(code))

\* runner.ts:73 the message of the Error of a run that left no artifact
NoOutputMessage(stderr, code) ==
    "EPUBCheck failed to produce output: "
    \o (IF stderr # "" THEN stderr ELSE "exit code " \o ToString(code))

\* runner.ts:82
SpawnFailedMessage(msg) == "Failed to run EPUBCheck: " \o msg

\* runner.ts:44-61 the call: getJarPath, the artifact path, buildArgs, spawn
\* and the registration of the handlers. A throw of getJarPath rejects the
\* promise of the async function before anything is spawned.
runEpubCheck(i, opts) ==
    /\ run[i].call = "idle"
    /\ i > 1 => run[i - 1].call = "called"
    /\ LET jar == getJarPath(jarEnv, jarFiles)
           uuid == randomUUID(uuidCalls + 1)
           out == jsonOutputPath(uuid)
       IN  IF ~jar.ok
           THEN /\ run' = [run EXCEPT ![i].call = "called",
                                      ![i].opts = opts,
                                      ![i].outcome = Rejected(jar.value)]
                /\ UNCHANGED uuidCalls
           ELSE /\ uuidCalls' = uuidCalls + 1
                /\ run' = [run EXCEPT ![i].call = "called",
                                      ![i].opts = opts,
                                      ![i].jsonOutputPath = out,
                                      ![i].argv = <<"-jar", jar.value>>
                                                  \o buildArgs(opts, out),
                                      ![i].cwd = Dirname(jar.value),
                                      ![i].proc = "spawned",
                                      ![i].outcome = Pending]
    /\ UNCHANGED <<jarEnv, jarFiles, tmpFiles, notRun>>

\* the engine writes its result to the path it was given after --json; it can
\* do so only if java found the jar
EngineWritesArtifact(i, text) ==
    /\ run[i].proc \in {"spawned", "running"}
    /\ run[i].wrote = NoText
    /\ run[i].argv[2] \in jarFiles
    /\ LET p == ArgAfter(run[i].argv, "--json")
       IN  tmpFiles' = [q \in DOMAIN tmpFiles \cup {p} |->
                           IF q = p THEN text ELSE tmpFiles[q]]
    /\ run' = [run EXCEPT ![i].proc = "running", ![i].wrote = text]
    /\ UNCHANGED <<jarEnv, jarFiles, uuidCalls, notRun>>

\* runner.ts:59-61 a 'data' event of the subprocess's stderr
OnStderrData(i, data) ==
    /\ run[i].proc \in {"spawned", "running"}
    /\ run[i].nData < MaxStderrChunks
    /\ run' = [run EXCEPT ![i].proc = "running",
                          ![i].nData = @ + 1,
                          ![i].stderr = @ \o data]
    /\ UNCHANGED <<jarEnv, jarFiles, tmpFiles, uuidCalls, notRun>>

\* runner.ts:81-83 the 'error' event: the subprocess could not be spawned
OnError(i, msg) ==
    /\ run[i].proc = "spawned"
    /\ run' = [run EXCEPT ![i].proc = "failed",
                          ![i].outcome = Settle(@, Rejected(SpawnFailedMessage(msg)))]
    /\ UNCHANGED <<jarEnv, jarFiles, tmpFiles, uuidCalls, notRun>>

\* runner.ts:63-66,71-75 the 'close' event (after the subprocess ended and its
\* streams closed, or after a failed spawn): the handler up to its first await
OnClose(i, code) ==
    /\ \/ run[i].proc \in {"spawned", "running"} /\ code \in ExitCodes
       \/ run[i].proc = "failed" /\ code = SpawnErrno
    /\ LET exists == run[i].jsonOutputPath \in DOMAIN tmpFiles
       IN  IF ArtifactFound(exists, code)
           THEN run' = [run EXCEPT ![i].proc = IF @ = "failed" THEN "failed-closed" ELSE "closed",
                                   ![i].closeCode = code,
                                   ![i].sawExists = IF exists THEN "yes" ELSE "no",
                                   ![i].handler = "readFile"]
           ELSE run' = [run EXCEPT ![i].proc = IF @ = "failed" THEN "failed-closed" ELSE "closed",
                                   ![i].closeCode = code,
                                   ![i].sawExists = IF exists THEN "yes" ELSE "no",
                                   ![i].handler = "finished",
                                   ![i].outcome =
                                       Settle(@, Rejected(NoOutputMessage(run[i].stderr, code)))]
    /\ UNCHANGED <<jarEnv, jarFiles, tmpFiles, uuidCalls, notRun>>

\* faulty variant: the text is parsed as soon as it is read, so that a text that
\* does not parse is rejected before unlink is called
ReadFileDone_ParseFirst(i) ==
    /\ run[i].handler = "readFile"
    /\ LET p == run[i].jsonOutputPath
       IN  IF p \in DOMAIN tmpFiles
           THEN IF JSONParse(tmpFiles[p]).ok
                THEN run' = [run EXCEPT ![i].handler = "unlink",
                                        ![i].jsonContent = tmpFiles[p]]
                ELSE run' = [run EXCEPT ![i].handler = "finished",
                                        ![i].jsonContent = tmpFiles[p],
                                        ![i].outcome =
                                            Settle(@, Rejected(JSONParse(tmpFiles[p]).value))]
           ELSE run' = [run EXCEPT ![i].handler = "finished",
                                   ![i].outcome =
                                       Settle(@, Rejected("ENOENT: no such file or directory, open '"
                                                          \o p \o "'"))]
    /\ UNCHANGED <<jarEnv, jarFiles, tmpFiles, uuidCalls, notRun>>

\* runner.ts:67 readFile completes: the text of the file, or ENOENT, which
\* the catch of the handler turns into a rejection
ReadFileDone(i) ==
    /\ run[i].handler = "readFile"
    /\ LET p == run[i].jsonOutputPath
       IN  IF p \in DOMAIN tmpFiles
           THEN run' = [run EXCEPT ![i].handler = "unlink",
                                   ![i].jsonContent = tmpFiles[p]]
           ELSE run' = [run EXCEPT ![i].handler = "finished",
                                   ![i].outcome =
                                       Settle(@, Rejected("ENOENT: no such file or directory, open '"
                                                          \o p \o "'"))]
    /\ UNCHANGED <<jarEnv, jarFiles, tmpFiles, uuidCalls, notRun>>

\* runner.ts:68-70,76-78 unlink completes (removed = FALSE: it failed and the
\* failure is swallowed), then JSON.parse and resolve, or reject on a throw
UnlinkDone(i, removed) ==
    /\ run[i].handler = "unlink"
    /\ LET p == run[i].jsonOutputPath
           gone == removed /\ p \in DOMAIN tmpFiles
           parsed == JSONParse(run[i].jsonContent)
       IN  /\ tmpFiles' = IF gone
                          THEN [q \in DOMAIN tmpFiles \ {p} |-> tmpFiles[q]]
                          ELSE tmpFiles
           /\ run' = [run EXCEPT ![i].handler = "finished",
                                 ![i].unlinkCalled = TRUE,
                                 ![i].unlinked = gone,
                                 ![i].outcome =
                                     Settle(@, IF parsed.ok THEN Fulfilled(parsed.value)
                                               ELSE Rejected(parsed.value))]
    /\ UNCHANGED <<jarEnv, jarFiles, uuidCalls, notRun>>

RunInit ==
    /\ \E c \in JarConfigs : jarEnv = c.env /\ jarFiles = c.files
    /\ tmpFiles = <<>>
    /\ uuidCalls = 0
    /\ run = [i \in Invocations |-> NotCalled]

\* the state of the runner in the specifications that do not use it
RunQuiet ==
    /\ jarEnv = Undefined
    /\ jarFiles = {}
    /\ tmpFiles = <<>>
    /\ uuidCalls = 0
    /\ run = [i \in Invocations |-> NotCalled]

NextRun ==
    \/ \E i \in Invocations, opts \in RunRequests : runEpubCheck(i, opts)
    \/ \E i \in Invocations, text \in ArtifactTexts : EngineWritesArtifact(i, text)
    \/ \E i \in Invocations, data \in StderrChunks : OnStderrData(i, data)
    \/ \E i \in Invocations, msg \in SpawnErrors : OnError(i, msg)
    \/ \E i \in Invocations, code \in ExitCodes \cup {SpawnErrno} : OnClose(i, code)
    \/ \E i \in Invocations : ReadFileDone(i)
    \/ \E i \in Invocations, removed \in BOOLEAN : UnlinkDone(i, removed)

-----------------------------------------------------------------------------
(* version-checker.ts: the background check for a newer EPUBCheck *)

\* a bound: the number of checkForUpdatesAsync calls of a behaviour
MaxTriggers == 3

\* a bound: the number of times the clock advances in a behaviour
MaxTicks == 3

\* a JavaScript null
Null == "null"

HourMs == 60 * 60 * 1000

\* version-checker.ts:7
CHECK_INTERVAL == 24 * 60 * 60 * 1000

\* the clock advances in steps of half the check interval, so that an age of
\* exactly CHECK_INTERVAL occurs; Date.now() is counted from an origin two
\* days before the first state
TickMs == 12 * HourMs

StartTime == 48 * HourMs

\* the versions a caller passes as currentVersion
CurrentVersions == {"5.3.0"}

\* no cache file, a file that cannot be read, a file that is not JSON
AbsentFile == [kind |-> "absent", lastCheck |-> 0, latestVersion |-> Null,
               currentVersion |-> ""]

UnreadableFile == [kind |-> "unreadable", lastCheck |-> 0, latestVersion |-> Null,
                   currentVersion |-> ""]

GarbageFile == [kind |-> "garbage", lastCheck |-> 0, latestVersion |-> Null,
                currentVersion |-> ""]

\* the file that holds JSON.stringify of a VersionCache
CacheFile(lastCheck, latestVersion, currentVersion) ==
    [kind |-> "json", lastCheck |-> lastCheck, latestVersion |-> latestVersion,
     currentVersion |-> currentVersion]

\* the cache files a behaviour may start from: none, a damaged one, or the
\* record of an earlier process, written up to a day ago
InitialCacheFiles ==
    {AbsentFile, UnreadableFile, GarbageFile}
    \cup {CacheFile(t, v, "5.3.0") :
            t \in {StartTime - 2 * TickMs, StartTime - TickMs, StartTime},
            v \in {Null, "5.3.0"}}

\* faulty variant: loadCache without its try/catch
loadCache_NoCatch(file) ==
    IF file.kind = "absent"
        THEN [threw |-> FALSE, found |-> FALSE, value |-> file]
    ELSE IF file.kind \in {"unreadable", "garbage"}
        THEN [threw |-> TRUE, found |-> FALSE, value |-> file]
    ELSE [threw |-> FALSE, found |-> TRUE, value |-> file]

\* version-checker.ts:28-38 loadCache: the parsed record (found), or null when
\* there is no file or when readFileSync or JSON.parse throws; threw says
\* whether an exception leaves the function
loadCache(file) ==
    IF file.kind = "absent"
        THEN [threw |-> FALSE, found |-> FALSE, value |-> file]
    ELSE IF file.kind = "unreadable"
        THEN [threw |-> FALSE, found |-> FALSE, value |-> file]
    ELSE IF file.kind = "garbage"
        THEN [threw |-> FALSE, found |-> FALSE, value |-> file]
    ELSE [threw |-> FALSE, found |-> TRUE, value |-> file]

\* faulty variant: a record of exactly CHECK_INTERVAL of age still counts as fresh
CacheFresh_Inclusive(now, cache) == now - cache.lastCheck <= CHECK_INTERVAL

\* version-checker.ts:99 the record is younger than CHECK_INTERVAL
CacheFresh(now, cache) == now - cache.lastCheck < CHECK_INTERVAL

\* the bodies of the responses of the release endpoint: not JSON, or an object
\* whose tag_name is missing, empty or a tag
MalformedBody == [json |-> FALSE, tag_name |-> Undefined]

TagNames == {Undefined, "", "v5.4.0", "5.3.0"}

ResponseBodies == {MalformedBody} \cup {[json |-> TRUE, tag_name |-> t] : t \in TagNames}

\* String.prototype.replace(/^v/, "")
StripV(tag) ==
    IF Len(tag) >= 1 /\ SubSeq(tag, 1, 1) = "v" THEN SubSeq(tag, 2, Len(tag)) ELSE tag

\* version-checker.ts:73-78 the value fetchLatestVersion returns for a body:
\* null when response.json() rejects, when there is no tag_name and when the
\* stripped tag is empty
LatestOfBody(body) ==
    IF ~body.json THEN Null
    ELSE IF body.tag_name = Undefined THEN Null
    ELSE IF StripV(body.tag_name) = "" THEN Null
    ELSE StripV(body.tag_name)

\* faulty variant: a cache file that exists is not overwritten
saveCache_CreateOnly(file, dir, cache, mkdirOk, writeOk) ==
    IF ~dir /\ ~mkdirOk THEN [file |-> file, dir |-> dir]
    ELSE IF ~writeOk \/ file.kind # "absent" THEN [file |-> file, dir |-> TRUE]
    ELSE [file |-> cache, dir |-> TRUE]

\* version-checker.ts:43-52 saveCache: the cache file and directory it leaves;
\* a throw of mkdirSync or of writeFileSync is swallowed
saveCache(file, dir, cache, mkdirOk, writeOk) ==
    IF ~dir /\ ~mkdirOk THEN [file |-> file, dir |-> dir]
    ELSE IF ~writeOk THEN [file |-> file, dir |-> TRUE]
    ELSE [file |-> cache, dir |-> TRUE]

\* faulty variant: no check of the in-flight marker
FetchInFlight_Never == FALSE

\* version-checker.ts:87 a check is in flight
FetchInFlight == versionCheckPromise # Null

\* faulty variant: the in-flight test is made after the cache has been loaded and used
checkForUpdatesAsync_LoadFirst(currentVersion) ==
    LET cache == loadCache(diskCache)
    IN  /\ diskReads' = diskReads + 1
        /\ thrown' = thrown
        /\ cachedLatestVersion' = IF cache.found THEN cache.value.latestVersion
                                  ELSE cachedLatestVersion
        /\ IF FetchInFlight \/ (cache.found /\ CacheFresh(clock, cache.value))
           THEN UNCHANGED <<versionCheckPromise, fetchStage, closureVersion, fetchCalls>>
           ELSE /\ versionCheckPromise' = "pending"
                /\ fetchStage' = "request"
                /\ closureVersion' = currentVersion
                /\ fetchCalls' = fetchCalls + 1

\* version-checker.ts:85-124 checkForUpdatesAsync up to its return: the
\* in-flight test, loadCache, the in-memory update, the freshness test, and
\* the start of the async function, which runs as far as fetch() before the
\* call returns
checkForUpdatesAsync(currentVersion) ==
    IF FetchInFlight
    THEN UNCHANGED <<diskReads, thrown, cachedLatestVersion, versionCheckPromise,
                     fetchStage, closureVersion, fetchCalls>>
    ELSE LET cache == loadCache(diskCache)
         IN  IF cache.threw
             THEN /\ diskReads' = diskReads + 1
                  /\ thrown' = TRUE
                  /\ UNCHANGED <<cachedLatestVersion, versionCheckPromise,
                                 fetchStage, closureVersion, fetchCalls>>
             ELSE /\ diskReads' = diskReads + 1
                  /\ thrown' = thrown
                  /\ cachedLatestVersion' =
                         IF cache.found THEN cache.value.latestVersion
                         ELSE cachedLatestVersion
                  /\ IF cache.found /\ CacheFresh(clock, cache.value)
                     THEN UNCHANGED <<versionCheckPromise, fetchStage,
                                      closureVersion, fetchCalls>>
                     ELSE /\ versionCheckPromise' = "pending"
                          /\ fetchStage' = "request"
                          /\ closureVersion' = currentVersion
                          /\ fetchCalls' = fetchCalls + 1

\* a call of the exported checkForUpdatesAsync
Trigger(currentVersion) ==
    /\ triggerCalls < MaxTriggers
    /\ triggerCalls' = triggerCalls + 1
    /\ checkForUpdatesAsync(currentVersion)
    /\ beforeFetch' = IF fetchCalls' > fetchCalls
                      THEN [latest |-> cachedLatestVersion',
                            file |-> diskCache, dir |-> cacheDir,
                            at |-> clock]
                      ELSE beforeFetch
    /\ UNCHANGED <<clock, diskCache, cacheDir, fetchesDone, fetchReturned, writeResult,
                   notification, notVC>>

\* faulty variant: the version is stored and saved without the test
\* if (latestVersion)
Conclude_SavesNull(latestVersion, mkdirOk, writeOk) ==
    /\ LET saved == saveCache(diskCache, cacheDir,
                              CacheFile(clock, latestVersion, closureVersion),
                              mkdirOk, writeOk)
       IN  /\ cachedLatestVersion' = latestVersion
           /\ diskCache' = saved.file
           /\ cacheDir' = saved.dir
    /\ versionCheckPromise' = Null
    /\ fetchStage' = "none"
    /\ closureVersion' = ""
    /\ fetchesDone' = fetchesDone + 1
    /\ fetchReturned' = latestVersion
    /\ writeResult' = IF (cacheDir \/ mkdirOk) /\ writeOk THEN "written" ELSE "failed"
    /\ UNCHANGED <<clock, triggerCalls, fetchCalls, diskReads, thrown,
                   beforeFetch, notification, notVC>>

\* faulty variant: versionCheckPromise is cleared after a successful fetch
\* only, not in a finally block
Conclude_NoFinally(latestVersion, mkdirOk, writeOk) ==
    /\ IF latestVersion # Null
       THEN LET saved == saveCache(diskCache, cacheDir,
                                   CacheFile(clock, latestVersion, closureVersion),
                                   mkdirOk, writeOk)
            IN  /\ cachedLatestVersion' = latestVersion
                /\ diskCache' = saved.file
                /\ cacheDir' = saved.dir
                /\ versionCheckPromise' = Null
       ELSE UNCHANGED <<cachedLatestVersion, diskCache, cacheDir, versionCheckPromise>>
    /\ fetchStage' = "none"
    /\ closureVersion' = ""
    /\ fetchesDone' = fetchesDone + 1
    /\ fetchReturned' = latestVersion
    /\ writeResult' = IF latestVersion = Null THEN writeResult
                      ELSE IF (cacheDir \/ mkdirOk) /\ writeOk THEN "written"
                      ELSE "failed"
    /\ UNCHANGED <<clock, triggerCalls, fetchCalls, diskReads, thrown,
                   beforeFetch, notification, notVC>>

\* version-checker.ts:107-122 the rest of the async function once
\* fetchLatestVersion has returned latestVersion
Conclude(latestVersion, mkdirOk, writeOk) ==
    /\ IF latestVersion # Null
       THEN LET saved == saveCache(diskCache, cacheDir,
                                   CacheFile(clock, latestVersion, closureVersion),
                                   mkdirOk, writeOk)
            IN  /\ cachedLatestVersion' = latestVersion
                /\ diskCache' = saved.file
                /\ cacheDir' = saved.dir
       ELSE UNCHANGED <<cachedLatestVersion, diskCache, cacheDir>>
    /\ versionCheckPromise' = Null
    /\ fetchStage' = "none"
    /\ closureVersion' = ""
    /\ fetchesDone' = fetchesDone + 1
    /\ fetchReturned' = latestVersion
    /\ writeResult' = IF latestVersion = Null THEN writeResult
                      ELSE IF (cacheDir \/ mkdirOk) /\ writeOk THEN "written"
                      ELSE "failed"
    /\ UNCHANGED <<clock, triggerCalls, fetchCalls, diskReads, thrown,
                   beforeFetch, notification, notVC>>

\* version-checker.ts:59-71,76-78 fetch() settles: it rejects, or the response
\* is not ok (both make fetchLatestVersion return null), or the response is ok
\* and the function goes on to await response.json()
FetchResponds(result) ==
    /\ fetchStage = "request"
    /\ IF result = "ok"
       THEN /\ fetchStage' = "body"
            /\ UNCHANGED <<clock, diskCache, cacheDir, cachedLatestVersion,
                           versionCheckPromise, closureVersion, triggerCalls,
                           fetchCalls, fetchesDone, diskReads, thrown,
                           beforeFetch, fetchReturned, writeResult, notification, notVC>>
       ELSE Conclude(Null, TRUE, TRUE)

\* version-checker.ts:73-78 response.json() settles
FetchBodyArrives(body, mkdirOk, writeOk) ==
    /\ fetchStage = "body"
    /\ Conclude(LatestOfBody(body), mkdirOk, writeOk)

-----------------------------------------------------------------------------
(* version-checker.ts: comparing versions *)

RECURSIVE IndexOf(_, _, _)
\* the first position >= i of character ch in string s, 0 when there is none
IndexOf(s, ch, i) ==
    IF i > Len(s) THEN 0
    ELSE IF SubSeq(s, i, i) = ch THEN i
    ELSE IndexOf(s, ch, i + 1)

RECURSIVE Split(_, _)
\* String.prototype.split with a separator of one character
Split(s, sep) ==
    LET k == IndexOf(s, sep, 1)
    IN  IF k = 0 THEN <<s>>
        ELSE <<SubSeq(s, 1, k - 1)>> \o Split(SubSeq(s, k + 1, Len(s)), sep)

\* the value of a decimal digit, -1 for any other character
DigitValue(ch) == IndexOf("0123456789", ch, 1) - 1

RECURSIVE DecimalValue(_, _)
\* the number the digits of s denote after the digits read so far gave acc,
\* -1 when a character of s is not a digit
DecimalValue(s, acc) ==
    IF s = "" THEN acc
    ELSE IF DigitValue(SubSeq(s, 1, 1)) < 0 THEN 0 - 1
    ELSE DecimalValue(SubSeq(s, 2, Len(s)), 10 * acc + DigitValue(SubSeq(s, 1, 1)))

NaN == [nan |-> TRUE, n |-> 0]

\* Number(string) on strings of digits (the number), on the empty string (0)
\* and on strings with a character that is no digit, sign, point, exponent or
\* space (NaN)
Number(s) ==
    IF DecimalValue(s, 0) < 0 THEN NaN ELSE [nan |-> FALSE, n |-> DecimalValue(s, 0)]

\* version-checker.ts:141-142 array[i] || 0: undefined past the end of the
\* array, NaN and 0 are falsy
ComponentOrZero(array, i) ==
    IF i > Len(array) THEN 0
    ELSE IF array[i].nan THEN 0
    ELSE array[i].n

Max(a, b) == IF a >= b THEN a ELSE b

Min(a, b) == IF a <= b THEN a ELSE b

RECURSIVE CompareFrom(_, _, _, _)
\* version-checker.ts:140-147 the loop from index i (1-based here), up to n
CompareFrom(current, latest, i, n) ==
    IF i > n THEN FALSE
    ELSE IF ComponentOrZero(latest, i) > ComponentOrZero(current, i) THEN TRUE
    ELSE IF ComponentOrZero(latest, i) < ComponentOrZero(current, i) THEN FALSE
    ELSE CompareFrom(current, latest, i + 1, n)

\* String.prototype.split(".").map(Number)
Components(version) ==
    [i \in DOMAIN Split(version, ".") |-> Number(Split(version, ".")[i])]

\* faulty variant: the loop stops at the end of the shorter array
isUpdateAvailable_NoPadding(currentVersion, latestVersion) ==
    IF latestVersion = Null \/ latestVersion = "" THEN FALSE
    ELSE CompareFrom(Components(currentVersion), Components(latestVersion), 1,
                     Min(Len(Components(currentVersion)), Len(Components(latestVersion))))

\* version-checker.ts:129-150
isUpdateAvailable(currentVersion, latestVersion) ==
    IF latestVersion = Null \/ latestVersion = "" THEN FALSE
    ELSE CompareFrom(Components(currentVersion), Components(latestVersion), 1,
                     Max(Len(Components(currentVersion)), Len(Components(latestVersion))))

\* the version strings compared
VersionStrings ==
    {"5.3.0", "5.3", "5.3.1", "5.2.9", "5.10.0", "6", "5.3.0.1",
     "5.x.1", "5..1", "v5.4.0", "5.3.0-beta", ""}

\* isUpdateAvailable is called on the pair, and on the pair the other way
\* round when the latest version is a string
CompareBothWays ==
    /\ ~cmpDone
    /\ cmpDone' = TRUE
    /\ cmpForward' = isUpdateAvailable(cmpCurrent, cmpLatest)
    /\ cmpBackward' = IF cmpLatest = Null THEN FALSE
                      ELSE isUpdateAvailable(cmpLatest, cmpCurrent)
    /\ UNCHANGED <<cmpCurrent, cmpLatest, notCmp>>

CmpInit ==
    /\ cmpCurrent \in VersionStrings
    /\ cmpLatest \in VersionStrings \cup {Null}
    /\ cmpForward = FALSE
    /\ cmpBackward = FALSE
    /\ cmpDone = FALSE

\* the state of the comparison in the specifications that do not use it
CmpQuiet ==
    /\ cmpCurrent = "5.3.0"
    /\ cmpLatest = Null
    /\ cmpForward = FALSE
    /\ cmpBackward = FALSE
    /\ cmpDone = FALSE

NextCmp == CompareBothWays

-----------------------------------------------------------------------------
(* version-checker.ts: the notification, the clock, the state machine *)

\* the versions getUpdateNotification is asked about
NotifyVersions == {"5.3.0", "5.4.0"}

\* getUpdateNotification has not been called
NotAsked == [called |-> FALSE, current |-> "", result |-> Null]

\* no fetch has started
NoFetchYet == [latest |-> Null, file |-> AbsentFile, dir |-> FALSE, at |-> 0]

\* version-checker.ts:158-159 the advisory text
Advisory(latestVersion, currentVersion) ==
    "\n---\nNote: EPUBCheck " \o latestVersion \o " is available (current: "
    \o currentVersion
    \o "). Visit https://github.com/w3c/epubcheck/releases for details."

\* faulty variant: the latest version is taken from the disk cache, which is
\* loaded into memory first
getUpdateNotification_Loads(currentVersion) ==
    LET cache == loadCache(diskCache)
        latestVersion == IF ~cache.threw /\ cache.found
                         THEN cache.value.latestVersion
                         ELSE cachedLatestVersion
    IN  /\ notification' =
               [called |-> TRUE, current |-> currentVersion,
                result |-> IF isUpdateAvailable(currentVersion, latestVersion)
                           THEN Advisory(latestVersion, currentVersion)
                           ELSE Null]
        /\ cachedLatestVersion' = latestVersion
        /\ diskReads' = diskReads + 1
        /\ UNCHANGED <<clock, diskCache, cacheDir, versionCheckPromise, fetchStage,
                       closureVersion, triggerCalls, fetchCalls, fetchesDone,
                       thrown, beforeFetch, fetchReturned, writeResult, notVC>>

\* version-checker.ts:155-163
getUpdateNotification(currentVersion) ==
    LET latestVersion == cachedLatestVersion
    IN  /\ notification' =
               [called |-> TRUE, current |-> currentVersion,
                result |-> IF isUpdateAvailable(currentVersion, latestVersion)
                           THEN Advisory(latestVersion, currentVersion)
                           ELSE Null]
        /\ UNCHANGED <<clock, diskCache, cacheDir, cachedLatestVersion,
                       versionCheckPromise, fetchStage, closureVersion,
                       triggerCalls, fetchCalls, fetchesDone, diskReads, thrown,
                       beforeFetch, fetchReturned, writeResult, notVC>>

\* time passes
Tick ==
    /\ clock < StartTime + MaxTicks * TickMs
    /\ clock' = clock + TickMs
    /\ UNCHANGED <<diskCache, cacheDir, cachedLatestVersion, versionCheckPromise,
                   fetchStage, closureVersion, triggerCalls, fetchCalls,
                   fetchesDone, diskReads, thrown, beforeFetch, fetchReturned, writeResult,
                   notification, notVC>>

VCInit ==
    /\ clock = StartTime
    /\ diskCache \in InitialCacheFiles
    /\ cacheDir \in (IF diskCache = AbsentFile THEN BOOLEAN ELSE {TRUE})
    /\ cachedLatestVersion = Null
    /\ versionCheckPromise = Null
    /\ fetchStage = "none"
    /\ closureVersion = ""
    /\ triggerCalls = 0
    /\ fetchCalls = 0
    /\ fetchesDone = 0
    /\ diskReads = 0
    /\ thrown = FALSE
    /\ beforeFetch = NoFetchYet
    /\ fetchReturned = "nothing"
    /\ writeResult = "none"
    /\ notification = NotAsked

\* the state of the version checker in the specifications that do not use it
VCQuiet ==
    /\ clock = StartTime
    /\ diskCache = AbsentFile
    /\ cacheDir = FALSE
    /\ cachedLatestVersion = Null
    /\ versionCheckPromise = Null
    /\ fetchStage = "none"
    /\ closureVersion = ""
    /\ triggerCalls = 0
    /\ fetchCalls = 0
    /\ fetchesDone = 0
    /\ diskReads = 0
    /\ thrown = FALSE
    /\ beforeFetch = NoFetchYet
    /\ fetchReturned = "nothing"
    /\ writeResult = "none"
    /\ notification = NotAsked

NextVC ==
    \/ Tick
    \/ \E cur \in CurrentVersions : Trigger(cur)
    \/ \E result \in {"error", "not-ok", "ok"} : FetchResponds(result)
    \/ \E body \in ResponseBodies, mkdirOk, writeOk \in BOOLEAN :
           FetchBodyArrives(body, mkdirOk, writeOk)
    \/ \E cur \in NotifyVersions : getUpdateNotification(cur)

-----------------------------------------------------------------------------
(* runner.ts: getEpubCheckVersion *)

\* a bound: the calls of getEpubCheckVersion
MaxVer == 2

\* a bound: the 'data' events on stdout, over all the subprocesses
MaxStdoutChunks == 2

VerCalls == 1..MaxVer

\* what the subprocess writes to stdout, in chunks
StdoutChunks == {"EPUBCheck v5.3.0\n", "EPUBCheck v", "5.3.0\n", " \n"}

\* the literal text of the pattern /EPUBCheck v([\d.]+)/
VersionPrefix == "EPUBCheck v"

\* the character class [\d.]
IsVersionChar(ch) == DigitValue(ch) >= 0 \/ ch = "."

RECURSIVE RunEnd(_, _)
\* the last position of the longest run of [\d.] characters of s that starts
\* at position k
RunEnd(s, k) ==
    IF k < Len(s) /\ IsVersionChar(SubSeq(s, k + 1, k + 1))
    THEN RunEnd(s, k + 1)
    ELSE k

RECURSIVE MatchFrom(_, _)
\* the leftmost match of the pattern in s at a position >= p
MatchFrom(s, p) ==
    IF p + Len(VersionPrefix) > Len(s)
    THEN [found |-> FALSE, group |-> ""]
    ELSE IF /\ SubSeq(s, p, p + Len(VersionPrefix) - 1) = VersionPrefix
            /\ IsVersionChar(SubSeq(s, p + Len(VersionPrefix), p + Len(VersionPrefix)))
    THEN [found |-> TRUE,
          group |-> SubSeq(s, p + Len(VersionPrefix),
                           RunEnd(s, p + Len(VersionPrefix)))]
    ELSE MatchFrom(s, p + 1)

\* faulty variant: the pattern is EPUBCheck v([\d.]*), whose group may be empty
MatchVersion_PrefixOnly(stdout) ==
    LET at == {p \in 1..Len(stdout) :
                  /\ p + Len(VersionPrefix) - 1 <= Len(stdout)
                  /\ SubSeq(stdout, p, p + Len(VersionPrefix) - 1) = VersionPrefix}
    IN  IF at = {} THEN [found |-> FALSE, group |-> ""]
        ELSE LET p == CHOOSE q \in at : \A h \in at : q <= h
                 k == p + Len(VersionPrefix)
             IN  [found |-> TRUE,
                  group |-> IF k <= Len(stdout) /\ IsVersionChar(SubSeq(stdout, k, k))
                            THEN SubSeq(stdout, k, RunEnd(stdout, k))
                            ELSE ""]

\* runner.ts:105 stdout.match(/EPUBCheck v([\d.]+)/): whether it matched, and
\* match[1]
MatchVersion(stdout) == MatchFrom(stdout, 1)

\* white space, as String.prototype.trim sees it in the chunks above
IsSpace(ch) == ch \in {" ", "\n", "\t", "\r"}

RECURSIVE TrimStart(_)
TrimStart(s) ==
    IF s # "" /\ IsSpace(SubSeq(s, 1, 1)) THEN TrimStart(SubSeq(s, 2, Len(s))) ELSE s

RECURSIVE TrimEnd(_)
TrimEnd(s) ==
    IF s # "" /\ IsSpace(SubSeq(s, Len(s), Len(s)))
    THEN TrimEnd(SubSeq(s, 1, Len(s) - 1))
    ELSE s

\* String.prototype.trim
Trim(s) == TrimEnd(TrimStart(s))

\* faulty variant: the trimmed output is returned even when it is empty
Fallback_NoUnknown(stdout) == Trim(stdout)

\* runner.ts:112 stdout.trim() || "unknown"
Fallback(stdout) == IF Trim(stdout) = "" THEN "unknown" ELSE Trim(stdout)

\* runner.ts:117 the message of the Error the 'error' handler rejects with
VersionSpawnFailedMessage(msg) == "Failed to get EPUBCheck version: " \o msg

\* a call of getEpubCheckVersion that has not been made
VerNotCalled ==
    [call |-> "idle", memoHit |-> FALSE, argv |-> <<>>, proc |-> "none",
     stdout |-> "", closeMatch |-> "none", outcome |-> Pending]

\* faulty variant: the memoized version is not looked at
getEpubCheckVersion_NoMemo(i) ==
    /\ ver[i].call = "idle"
    /\ LET jar == getJarPath(jarEnv, jarFiles)
       IN  /\ jarLookups' = jarLookups + 1
           /\ IF jar.ok
              THEN /\ ver' = [ver EXCEPT ![i].call = "called",
                                         ![i].argv = <<"-jar", jar.value, "--version">>,
                                         ![i].proc = "spawned"]
                   /\ spawns' = spawns + 1
              ELSE /\ ver' = [ver EXCEPT ![i].call = "called",
                                         ![i].outcome = Rejected(jar.value)]
                   /\ spawns' = spawns
    /\ UNCHANGED <<cachedVersion, stdoutChunks, vcVars, notVer>>

\* runner.ts:87-96 getEpubCheckVersion up to its return: the memoized version,
\* or getJarPath (whose Error rejects the promise of the async function) and
\* spawn
getEpubCheckVersion(i) ==
    /\ ver[i].call = "idle"
    /\ IF cachedVersion # Null /\ cachedVersion # ""
       THEN /\ ver' = [ver EXCEPT ![i].call = "called",
                                  ![i].memoHit = TRUE,
                                  ![i].outcome = Fulfilled(cachedVersion)]
            /\ UNCHANGED <<jarLookups, spawns>>
       ELSE LET jar == getJarPath(jarEnv, jarFiles)
            IN  /\ jarLookups' = jarLookups + 1
                /\ IF jar.ok
                   THEN /\ ver' = [ver EXCEPT ![i].call = "called",
                                              ![i].argv = <<"-jar", jar.value, "--version">>,
                                              ![i].proc = "spawned"]
                        /\ spawns' = spawns + 1
                   ELSE /\ ver' = [ver EXCEPT ![i].call = "called",
                                              ![i].outcome = Rejected(jar.value)]
                        /\ spawns' = spawns
    /\ UNCHANGED <<cachedVersion, stdoutChunks, vcVars, notVer>>

\* runner.ts:100-102 a 'data' event on stdout
OnVersionStdoutData(i, data) ==
    /\ ver[i].proc = "spawned"
    /\ stdoutChunks < MaxStdoutChunks
    /\ stdoutChunks' = stdoutChunks + 1
    /\ ver' = [ver EXCEPT ![i].stdout = @ \o data]
    /\ UNCHANGED <<cachedVersion, jarLookups, spawns, vcVars, notVer>>

\* runner.ts:116-118 the 'error' event: the subprocess could not be spawned
OnVersionError(i, msg) ==
    /\ ver[i].proc = "spawned"
    /\ ver[i].stdout = ""
    /\ ver' = [ver EXCEPT ![i].proc = "failed",
                          ![i].outcome = Settle(@, Rejected(VersionSpawnFailedMessage(msg)))]
    /\ UNCHANGED <<cachedVersion, jarLookups, spawns, stdoutChunks, vcVars, notVer>>

\* faulty variant: the promise is resolved when the background check is over,
\* not when it has been started
OnVersionClose_AwaitsCheck(i) ==
    /\ ver[i].proc \in {"spawned", "failed"}
    /\ LET match == MatchVersion(ver[i].stdout)
           proc == IF ver[i].proc = "spawned" THEN "closed" ELSE "failed-closed"
       IN  IF match.found
           THEN /\ cachedVersion' = match.group
                /\ triggerCalls' = triggerCalls + 1
                /\ checkForUpdatesAsync(match.group)
                /\ beforeFetch' = IF fetchCalls' > fetchCalls
                                  THEN [latest |-> cachedLatestVersion',
                                        file |-> diskCache, dir |-> cacheDir,
                                        at |-> clock]
                                  ELSE beforeFetch
                /\ ver' = [ver EXCEPT ![i].proc = proc,
                                      ![i].closeMatch = "hit",
                                      ![i].outcome =
                                          IF thrown' \/ versionCheckPromise' # Null THEN @
                                          ELSE Settle(@, Fulfilled(match.group))]
                /\ UNCHANGED <<clock, diskCache, cacheDir, fetchesDone,
                               fetchReturned, writeResult, notification>>
           ELSE /\ ver' = [ver EXCEPT ![i].proc = proc,
                                      ![i].closeMatch = "miss",
                                      ![i].outcome =
                                          Settle(@, Fulfilled(Fallback(ver[i].stdout)))]
                /\ UNCHANGED <<cachedVersion, vcVars>>
    /\ UNCHANGED <<jarLookups, spawns, stdoutChunks, notVer>>

\* faulty variant: the fallback is memoized as well
OnVersionClose_MemoizesFallback(i) ==
    /\ ver[i].proc \in {"spawned", "failed"}
    /\ LET match == MatchVersion(ver[i].stdout)
           proc == IF ver[i].proc = "spawned" THEN "closed" ELSE "failed-closed"
       IN  IF match.found
           THEN /\ cachedVersion' = match.group
                /\ triggerCalls' = triggerCalls + 1
                /\ checkForUpdatesAsync(match.group)
                /\ beforeFetch' = IF fetchCalls' > fetchCalls
                                  THEN [latest |-> cachedLatestVersion',
                                        file |-> diskCache, dir |-> cacheDir,
                                        at |-> clock]
                                  ELSE beforeFetch
                /\ ver' = [ver EXCEPT ![i].proc = proc,
                                      ![i].closeMatch = "hit",
                                      ![i].outcome =
                                          IF thrown' THEN @
                                          ELSE Settle(@, Fulfilled(match.group))]
                /\ UNCHANGED <<clock, diskCache, cacheDir, fetchesDone,
                               fetchReturned, writeResult, notification>>
           ELSE /\ ver' = [ver EXCEPT ![i].proc = proc,
                                      ![i].closeMatch = "miss",
                                      ![i].outcome =
                                          Settle(@, Fulfilled(Fallback(ver[i].stdout)))]
                /\ cachedVersion' = Fallback(ver[i].stdout)
                /\ UNCHANGED vcVars
    /\ UNCHANGED <<jarLookups, spawns, stdoutChunks, notVer>>

\* runner.ts:104-114 the 'close' event: on a match the version is memoized,
\* checkForUpdatesAsync is called and the promise is resolved (an exception of
\* the call would leave the handler before resolve); otherwise the promise is
\* resolved with the fallback. Resolving a settled promise does nothing.
OnVersionClose(i) ==
    /\ ver[i].proc \in {"spawned", "failed"}
    /\ LET match == MatchVersion(ver[i].stdout)
           proc == IF ver[i].proc = "spawned" THEN "closed" ELSE "failed-closed"
       IN  IF match.found
           THEN /\ cachedVersion' = match.group
                /\ triggerCalls' = triggerCalls + 1
                /\ checkForUpdatesAsync(match.group)
                /\ beforeFetch' = IF fetchCalls' > fetchCalls
                                  THEN [latest |-> cachedLatestVersion',
                                        file |-> diskCache, dir |-> cacheDir,
                                        at |-> clock]
                                  ELSE beforeFetch
                /\ ver' = [ver EXCEPT ![i].proc = proc,
                                      ![i].closeMatch = "hit",
                                      ![i].outcome =
                                          IF thrown' THEN @
                                          ELSE Settle(@, Fulfilled(match.group))]
                /\ UNCHANGED <<clock, diskCache, cacheDir, fetchesDone,
                               fetchReturned, writeResult, notification>>
           ELSE /\ ver' = [ver EXCEPT ![i].proc = proc,
                                      ![i].closeMatch = "miss",
                                      ![i].outcome =
                                          Settle(@, Fulfilled(Fallback(ver[i].stdout)))]
                /\ UNCHANGED <<cachedVersion, vcVars>>
    /\ UNCHANGED <<jarLookups, spawns, stdoutChunks, notVer>>

\* index.ts:471-482 and 205-243: the text of the response of the get_version
\* tool for the outcome of its getEpubCheckVersion call, Null while the
\* handler awaits it
handleGetVersion(outcome) ==
    IF outcome.state = "fulfilled"
    THEN "EPUBCheck version: " \o outcome.value \o "\nMCP Server version: 0.1.0"
    ELSE IF outcome.state = "rejected"
    THEN "Error: " \o outcome.value
    ELSE Null

VerInit ==
    /\ cachedVersion = Null
    /\ ver = [i \in VerCalls |-> VerNotCalled]
    /\ jarLookups = 0
    /\ spawns = 0
    /\ stdoutChunks = 0

\* the jar locations and the rest of the runner when getEpubCheckVersion is
\* called and runEpubCheck is not
VerJarInit ==
    /\ \E c \in JarConfigs : jarEnv = c.env /\ jarFiles = c.files
    /\ tmpFiles = <<>>
    /\ uuidCalls = 0
    /\ run = [i \in Invocations |-> NotCalled]

NextVer ==
    \/ \E i \in VerCalls : getEpubCheckVersion(i)
    \/ \E i \in VerCalls, data \in StdoutChunks : OnVersionStdoutData(i, data)
    \/ \E i \in VerCalls, msg \in SpawnErrors : OnVersionError(i, msg)
    \/ \E i \in VerCalls : OnVersionClose(i)
    \/ \E result \in {"error", "not-ok", "ok"} : FetchResponds(result)
    \/ \E body \in ResponseBodies, mkdirOk, writeOk \in BOOLEAN :
           FetchBodyArrives(body, mkdirOk, writeOk)

-----------------------------------------------------------------------------
(* The specifications *)

InitArgs == ArgsInit /\ RunQuiet /\ VCQuiet /\ CmpQuiet /\ VerInit

SpecArgs == InitArgs /\ [][NextArgs]_vars

InitRun == ArgsQuiet /\ RunInit /\ VCQuiet /\ CmpQuiet /\ VerInit

SpecRun == InitRun /\ [][NextRun]_vars

\* where the subprocess and the close handler of each invocation are; every
\* step of OnClose, OnError, ReadFileDone and UnlinkDone changes it
runProgress == [i \in Invocations |-> <<run[i].proc, run[i].handler>>]

\* SpecRun with the assumptions that a subprocess that was spawned terminates
\* or fails to spawn, and that readFile and unlink complete
SpecRunFair ==
    /\ SpecRun
    /\ \A i \in Invocations :
          /\ WF_runProgress((\E code \in ExitCodes \cup {SpawnErrno} : OnClose(i, code))
                            \/ (\E msg \in SpawnErrors : OnError(i, msg)))
          /\ WF_runProgress(ReadFileDone(i))
          /\ WF_runProgress(\E removed \in BOOLEAN : UnlinkDone(i, removed))

InitVC == ArgsQuiet /\ RunQuiet /\ VCInit /\ CmpQuiet /\ VerInit

SpecVC == InitVC /\ [][NextVC]_vars

\* SpecVC with the assumption that fetch() and response.json() settle
SpecVCFair ==
    /\ SpecVC
    /\ WF_vars(\E result \in {"error", "not-ok", "ok"} : FetchResponds(result))
    /\ WF_vars(\E body \in ResponseBodies, mkdirOk, writeOk \in BOOLEAN :
                   FetchBodyArrives(body, mkdirOk, writeOk))

InitCmp == ArgsQuiet /\ RunQuiet /\ VCQuiet /\ CmpInit /\ VerInit

SpecCmp == InitCmp /\ [][NextCmp]_vars

InitVer == ArgsQuiet /\ VerJarInit /\ VCInit /\ CmpQuiet /\ VerInit

SpecVer == InitVer /\ [][NextVer]_vars

\* SpecVer with the passing of time
NextVerClock ==
    \/ NextVer
    \/ Tick

SpecVerClock == InitVer /\ [][NextVerClock]_vars

-----------------------------------------------------------------------------
(* Claims about buildArgs, checked under SpecArgs *)

\* the mode is the default: full-package "epub", or not given
DefaultMode(opts) == opts.mode = "epub" \/ opts.mode = Undefined

\* C6: the vector is exactly --json <artifact>, then the optional --mode
\* pair, then the --profile pair (present iff a profile is given and is not
\* "default"), then the optional -v pair, then the target path, last.
C6_ArgsOrder ==
    built =>
        \E m, v \in BOOLEAN :
            LET p == options.profile # Undefined /\ options.profile # "default"
            IN  /\ m => options.mode # Undefined
                /\ v => options.version # Undefined
                /\ args = <<"--json", outPath>>
                          \o (IF m THEN <<"--mode", options.mode>> ELSE <<>>)
                          \o (IF p THEN <<"--profile", options.profile>> ELSE <<>>)
                          \o (IF v THEN <<"-v", options.version>> ELSE <<>>)
                          \o <<options.path>>

C6_Witness ==
    /\ built
    /\ Len(args) = 9
    /\ options.profile = "edupub"

\* C7: no --mode flag for the default mode; for every other mode --mode and
\* the mode's value appear exactly once each, the value right after the flag.
C7_ModeFlag ==
    built =>
        IF DefaultMode(options)
        THEN Count(args, "--mode") = 0
        ELSE /\ Count(args, "--mode") = 1
             /\ Count(args, options.mode) = 1
             /\ \E i \in 1..(Len(args) - 1) :
                    args[i] = "--mode" /\ args[i + 1] = options.mode

C7_Witness ==
    /\ built
    /\ options.mode = "xhtml"
    /\ Count(args, "--mode") = 1

\* C8: -v <version> is emitted iff a version was given and the mode is not the
\* default full-package mode (a mode that is not given counts as the default).
C8_VersionFlag ==
    built =>
        /\ Count(args, "-v") = 1
              <=> (options.version # Undefined /\ ~DefaultMode(options))
        /\ Count(args, "-v") <= 1
        /\ \A i \in DOMAIN args :
              args[i] = "-v" => (i < Len(args) /\ args[i + 1] = options.version)

C8_Witness ==
    /\ built
    /\ options.version = "2.0"
    /\ options.mode = "opf"
    /\ Count(args, "-v") = 1

-----------------------------------------------------------------------------
(* Claims about runEpubCheck, checked under SpecRun *)

\* the subprocess of invocation i ran and its 'close' event has been handled
\* to the end
Terminated(i) == run[i].proc = "closed" /\ run[i].handler = "finished"

\* C1 as stated: whenever the artifact exists at termination the run is a
\* Success, whatever the exit code.
C1_SuccessWheneverArtifact ==
    \A i \in Invocations :
        (Terminated(i) /\ run[i].sawExists = "yes")
            => run[i].outcome.state = "fulfilled"

\* C1 as amended: whenever the artifact exists at termination and its text
\* parses as JSON, the run is a Success with the parsed document, for exit
\* code zero and non-zero alike.
C1_SuccessWhenArtifactParses ==
    \A i \in Invocations :
        (Terminated(i) /\ run[i].sawExists = "yes" /\ JSONParse(run[i].wrote).ok)
            => /\ run[i].closeCode \in ExitCodes
               /\ run[i].outcome = [state |-> "fulfilled",
                                    value |-> JSONParse(run[i].wrote).value]

C1_Witness ==
    \E i \in Invocations :
        /\ Terminated(i)
        /\ run[i].sawExists = "yes"
        /\ run[i].closeCode = 1
        /\ run[i].outcome.state = "fulfilled"

\* C2: when the artifact does not exist at the termination of a subprocess
\* that ran, the run is rejected as "failed to produce output", for exit code 0
\* too, with the collected stderr as diagnostic when there is any and
\* "exit code N" otherwise.
C2_NoOutputProduced ==
    \A i \in Invocations :
        (run[i].proc = "closed" /\ run[i].sawExists = "no")
            => /\ run[i].outcome.state = "rejected"
               /\ run[i].stderr # ""
                    => run[i].outcome.value =
                         "EPUBCheck failed to produce output: " \o run[i].stderr
               /\ run[i].stderr = ""
                    => run[i].outcome.value =
                         "EPUBCheck failed to produce output: exit code "
                         \o ToString(run[i].closeCode)

C2_Witness ==
    \E i \in Invocations :
        /\ run[i].proc = "closed"
        /\ run[i].sawExists = "no"
        /\ run[i].closeCode = 0
        /\ run[i].outcome.value = "EPUBCheck failed to produce output: exit code 0"

\* what invocation i must return given what its own engine wrote and said
OwnResult(i) ==
    IF run[i].wrote = NoText
    THEN Rejected(NoOutputMessage(run[i].stderr, run[i].closeCode))
    ELSE IF JSONParse(run[i].wrote).ok
         THEN Fulfilled(JSONParse(run[i].wrote).value)
         ELSE Rejected(JSONParse(run[i].wrote).value)

\* C9: the artifact paths of the invocations made are pairwise distinct; the
\* artifact an engine wrote stays in place, with the text that engine wrote,
\* until its own invocation unlinks it; what an invocation reads is what its
\* own engine wrote, and its result is decided by that alone.
C9_ArtifactsIsolated ==
    /\ \A i, j \in Invocations :
           (i # j /\ run[i].proc # "none" /\ run[j].proc # "none")
               => run[i].jsonOutputPath # run[j].jsonOutputPath
    /\ \A i \in Invocations :
           (run[i].wrote # NoText /\ ~run[i].unlinked)
               => /\ run[i].jsonOutputPath \in DOMAIN tmpFiles
                  /\ tmpFiles[run[i].jsonOutputPath] = run[i].wrote
    /\ \A i \in Invocations :
           /\ run[i].jsonContent \in {NoText, run[i].wrote}
           /\ Terminated(i) => run[i].outcome = OwnResult(i)

C9_Witness ==
    \E i, j \in Invocations :
        /\ i # j
        /\ run[i].call = "called" /\ run[j].call = "called"
        /\ run[i].opts.path = run[j].opts.path
        /\ run[i].wrote # NoText /\ run[j].wrote # NoText
        /\ run[i].wrote # run[j].wrote
        /\ Terminated(i) /\ run[i].unlinked
        /\ run[j].proc = "running"
        /\ run[j].jsonOutputPath \in DOMAIN tmpFiles

\* the message of the Error getJarPath throws
JarNotFoundMessage ==
    "EPUBCheck JAR not found. Searched in: "
    \o PossiblePaths[1] \o ", " \o PossiblePaths[2] \o ", " \o PossiblePaths[3]
    \o ". Set EPUBCHECK_JAR_PATH environment variable or ensure bin/epubcheck.jar exists."

\* invocation i was rejected by getJarPath: nothing spawned, no artifact path
\* made, nothing read
FailedBeforeSpawn(i) ==
    /\ run[i].outcome = [state |-> "rejected", value |-> JarNotFoundMessage]
    /\ run[i].proc = "none"
    /\ run[i].argv = <<>>
    /\ run[i].sawExists = "unknown"
    /\ run[i].jsonContent = NoText

\* none of the candidate locations exists, the override counting as the first
\* candidate when it is set
NoCandidateExists ==
    /\ jarEnv # Undefined => jarEnv \notin jarFiles
    /\ \A k \in DOMAIN PossiblePaths : PossiblePaths[k] \notin jarFiles

\* C17 as stated: when no candidate location exists, the override included,
\* the run fails with the not-found error before anything is spawned.
C17_NotFoundWhenNoCandidate ==
    \A i \in Invocations :
        (run[i].call = "called" /\ NoCandidateExists) => FailedBeforeSpawn(i)

\* C17 as amended: when the override is not set and none of the three fixed
\* locations exists, the run fails with the not-found error, which lists the
\* three locations, before anything is spawned or read; when the override is
\* set it is the jar used, whether it exists or not; otherwise the jar used is
\* the first fixed location that exists.
C17_JarResolution ==
    \A i \in Invocations :
        run[i].call = "called" =>
            IF jarEnv # Undefined
            THEN run[i].proc # "none" /\ run[i].argv[2] = jarEnv
            ELSE IF \A k \in DOMAIN PossiblePaths : PossiblePaths[k] \notin jarFiles
            THEN FailedBeforeSpawn(i)
            ELSE /\ run[i].proc # "none"
                 /\ \E k \in DOMAIN PossiblePaths :
                        /\ run[i].argv[2] = PossiblePaths[k]
                        /\ PossiblePaths[k] \in jarFiles
                        /\ \A h \in 1..(k - 1) : PossiblePaths[h] \notin jarFiles

C17_Witness ==
    \E i \in Invocations :
        /\ run[i].call = "called"
        /\ jarEnv = Undefined
        /\ FailedBeforeSpawn(i)

\* C18: once the 'error' event of a failed spawn has been handled, the outcome
\* is the rejection "Failed to run EPUBCheck: <native message>", and it stays
\* that when a 'close' event is handled afterwards.
C18_SpawnFailedIsFinal ==
    \A i \in Invocations :
        run[i].proc \in {"failed", "failed-closed"}
            => /\ run[i].outcome.state = "rejected"
               /\ \E msg \in SpawnErrors :
                      run[i].outcome.value = "Failed to run EPUBCheck: " \o msg

C18_Witness ==
    \E i \in Invocations :
        /\ run[i].proc = "failed-closed"
        /\ run[i].handler = "finished"
        /\ run[i].sawExists = "no"
        /\ run[i].outcome.value = "Failed to run EPUBCheck: spawn java ENOENT"

\* C19: when the artifact exists at termination and its text does not parse,
\* the run is rejected with the decode error (neither a Success nor the
\* no-output failure), and unlink has been called on the artifact before the
\* parse: the file is gone unless the unlink itself failed.
C19_MalformedOutput ==
    \A i \in Invocations :
        (Terminated(i) /\ run[i].sawExists = "yes" /\ ~JSONParse(run[i].wrote).ok)
            => /\ run[i].outcome = [state |-> "rejected",
                                    value |-> "SyntaxError: Unexpected end of JSON input"]
               /\ run[i].jsonContent = run[i].wrote
               /\ run[i].unlinkCalled
               /\ run[i].unlinked <=> run[i].jsonOutputPath \notin DOMAIN tmpFiles

C19_Witness ==
    \E i \in Invocations :
        /\ Terminated(i)
        /\ run[i].sawExists = "yes"
        /\ run[i].outcome.value = "SyntaxError: Unexpected end of JSON input"
        /\ run[i].unlinked
        /\ run[i].jsonOutputPath \notin DOMAIN tmpFiles

\* C26: the promise of a runEpubCheck call settles at most once: an outcome
\* that is settled is never replaced, also when 'close' follows 'error'; and
\* when the subprocess terminates or fails to spawn, and readFile and unlink
\* complete, every call made is eventually settled.
C26_ExactlyOneOutcome ==
    /\ [][\A i \in Invocations :
            run[i].outcome.state \in {"fulfilled", "rejected"}
                => run'[i].outcome = run[i].outcome]_vars
    /\ \A i \in Invocations :
          (run[i].call = "called") ~> (run[i].outcome.state \in {"fulfilled", "rejected"})

C26_Witness ==
    \E i, j \in Invocations :
        /\ run[i].proc = "failed-closed"
        /\ run[i].outcome.state = "rejected"
        /\ run[j].proc = "closed"
        /\ run[j].handler = "finished"
        /\ run[j].outcome.state = "fulfilled"

-----------------------------------------------------------------------------
(* Claims about checkForUpdatesAsync, checked under SpecVC *)

\* the remote fetches that have been started and have not concluded
InFlight == fetchCalls - fetchesDone

\* a step that is a call of checkForUpdatesAsync
TriggerStep == triggerCalls' = triggerCalls + 1

\* C3: at most one background fetch is in flight in every reachable state, and
\* the in-flight marker is set exactly while one is.
C3_SingleFlight ==
    /\ InFlight \in {0, 1}
    /\ InFlight = 1 <=> versionCheckPromise # Null

C3_Witness ==
    /\ InFlight = 1
    /\ triggerCalls >= 2
    /\ diskReads = 1

\* C4: with no cache record on disk, calls of checkForUpdatesAsync made before
\* the first fetch has concluded start exactly one fetch between them, and a
\* call made while a fetch is in flight changes nothing: no cache read, no
\* change of the in-memory latest version, no fetch.
C4_SecondTriggerIsNoOp ==
    /\ []((diskCache.kind = "absent" /\ fetchesDone = 0 /\ triggerCalls >= 1)
            => fetchCalls = 1)
    /\ [][(TriggerStep /\ versionCheckPromise # Null)
            => UNCHANGED <<clock, diskCache, cacheDir, cachedLatestVersion,
                           versionCheckPromise, fetchStage, closureVersion,
                           fetchCalls, fetchesDone, diskReads, thrown>>]_vars

C4_Witness ==
    /\ diskCache.kind = "absent"
    /\ triggerCalls = 2
    /\ fetchCalls = 1
    /\ fetchesDone = 0
    /\ diskReads = 1

\* C5: a call with no fetch in flight starts no fetch and stays Idle when the
\* record on disk is less than 24 hours old, and starts a fetch when there is
\* no record or the record is 24 hours old or older.
C5_FreshCacheSuppressesFetch ==
    [][(TriggerStep /\ versionCheckPromise = Null)
        => /\ (diskCache.kind = "json"
                 /\ clock - diskCache.lastCheck < 24 * HourMs)
                => (fetchCalls' = fetchCalls /\ versionCheckPromise' = Null)
           /\ (diskCache.kind = "absent"
                 \/ (diskCache.kind = "json"
                       /\ clock - diskCache.lastCheck >= 24 * HourMs))
                => (fetchCalls' = fetchCalls + 1 /\ versionCheckPromise' # Null)]_vars

\* a call read a record that was still fresh and no fetch has ever started
C5_Witness ==
    /\ triggerCalls = 1
    /\ diskReads = 1
    /\ fetchCalls = 0
    /\ versionCheckPromise = Null
    /\ diskCache.kind = "json"
    /\ clock - diskCache.lastCheck = 12 * HourMs

\* C10: a call made with no fetch in flight while the cache file is missing,
\* unreadable or not parseable throws nothing, leaves the in-memory latest
\* version as it was and starts a fetch.
C10_DamagedCacheIsAbsent ==
    [][(TriggerStep /\ versionCheckPromise = Null
          /\ diskCache.kind \in {"absent", "unreadable", "garbage"})
        => /\ thrown' = FALSE
           /\ cachedLatestVersion' = cachedLatestVersion
           /\ diskCache' = diskCache
           /\ fetchCalls' = fetchCalls + 1
           /\ versionCheckPromise' # Null
           /\ fetchStage' = "request"]_vars

\* a second check was started over a cache file that is not JSON, and the
\* version the first one fetched is still in memory
C10_Witness ==
    /\ diskCache.kind = "garbage"
    /\ cachedLatestVersion = "5.4.0"
    /\ fetchCalls = 2
    /\ versionCheckPromise # Null
    /\ thrown = FALSE

\* a fetch attempt concludes in this step
ConcludeStep == fetchesDone' = fetchesDone + 1

\* C11: when a fetch fails (fetchLatestVersion returns null: network error,
\* non-2xx response, malformed body, missing or empty tag), the in-memory
\* latest version and the disk cache are what they were when the fetch
\* started, the step writes nothing, and it starts no fetch; a fetch is only
\* ever started by a trigger.
C11_FailedFetchChangesNothing ==
    /\ [][(ConcludeStep /\ fetchReturned' = Null)
            => /\ cachedLatestVersion' = beforeFetch.latest
               /\ diskCache' = beforeFetch.file
               /\ cacheDir' = beforeFetch.dir
               /\ diskCache' = diskCache
               /\ cacheDir' = cacheDir
               /\ cachedLatestVersion' = cachedLatestVersion
               /\ fetchCalls' = fetchCalls
               /\ fetchStage' = "none"]_vars
    /\ [][fetchCalls' # fetchCalls => TriggerStep]_vars

C11_Witness ==
    /\ fetchesDone = 1
    /\ fetchReturned = Null
    /\ beforeFetch.latest = "5.3.0"
    /\ cachedLatestVersion = "5.3.0"
    /\ diskCache = beforeFetch.file
    /\ triggerCalls = 1

\* C12: every fetch attempt that concludes, with a version, with a failure
\* or with a cache write that fails, clears the in-flight marker, and a
\* trigger that then finds no fresh cache starts a new fetch; when fetch() and
\* response.json() eventually settle, Checking always leads to Idle.
C12_BackToIdle ==
    /\ [][ConcludeStep => versionCheckPromise' = Null /\ fetchStage' = "none"]_vars
    /\ [][(TriggerStep /\ versionCheckPromise = Null /\ ~loadCache(diskCache).threw
            /\ ~(loadCache(diskCache).found
                 /\ CacheFresh(clock, loadCache(diskCache).value)))
            => versionCheckPromise' # Null /\ fetchCalls' = fetchCalls + 1]_vars
    /\ (versionCheckPromise # Null) ~> (versionCheckPromise = Null)

C12_Witness ==
    /\ fetchesDone = 1
    /\ fetchCalls = 2
    /\ versionCheckPromise # Null

\* C16: a call of getUpdateNotification changes nothing of the version
\* checker (no fetch, no read or write of the disk cache, the in-memory
\* version and the in-flight marker as they were), and its result is the
\* advisory exactly when isUpdateAvailable(current, in-memory latest version)
\* holds, null otherwise.
C16_NotificationIsPure ==
    [][notification' # notification
         => /\ UNCHANGED <<clock, diskCache, cacheDir, cachedLatestVersion,
                           versionCheckPromise, fetchStage, closureVersion,
                           triggerCalls, fetchCalls, fetchesDone, diskReads,
                           thrown>>
            /\ notification'.called
            /\ notification'.result # Null
                   <=> isUpdateAvailable(notification'.current, cachedLatestVersion)
            /\ notification'.result # Null
                   => notification'.result =
                          "\n---\nNote: EPUBCheck " \o cachedLatestVersion
                          \o " is available (current: " \o notification'.current
                          \o "). Visit https://github.com/w3c/epubcheck/releases for details."]_vars

C16_Witness ==
    /\ notification.called
    /\ notification.current = "5.3.0"
    /\ notification.result # Null
    /\ cachedLatestVersion = "5.4.0"
    /\ versionCheckPromise = Null

\* C22: when a fetch that a trigger with current version C started returns a
\* version L, the in-memory latest version becomes L; when the write succeeds
\* the disk cache is the record {lastCheck: the time of that step,
\* latestVersion: L, currentVersion: C}, whatever was on disk before; when
\* mkdir or the write fails the disk cache stays as it was, the in-memory
\* version is L all the same, and nothing is thrown.
C22_SuccessfulFetchIsRecorded ==
    [][(ConcludeStep /\ fetchReturned' # Null)
         => /\ cachedLatestVersion' = fetchReturned'
            /\ thrown' = thrown
            /\ versionCheckPromise' = Null
            /\ writeResult' \in {"written", "failed"}
            /\ writeResult' = "written"
                  => diskCache' = [kind |-> "json", lastCheck |-> clock,
                                   latestVersion |-> fetchReturned',
                                   currentVersion |-> closureVersion]
            /\ writeResult' = "failed" => diskCache' = diskCache]_vars

C22_Witness ==
    /\ fetchesDone = 1
    /\ fetchReturned = "5.4.0"
    /\ writeResult = "written"
    /\ beforeFetch.file.kind = "json"
    /\ beforeFetch.file.latestVersion = "5.3.0"
    /\ diskCache = [kind |-> "json", lastCheck |-> clock, latestVersion |-> "5.4.0",
                    currentVersion |-> "5.3.0"]
    /\ clock > beforeFetch.at
    /\ cachedLatestVersion = "5.4.0"

-----------------------------------------------------------------------------
(* Claims about isUpdateAvailable, checked under SpecCmp *)

\* the components of each version string compared, read as numbers, with 0
\* for a component that is not a number
ComponentsAsNumbers(version) ==
    CASE version = "5.3.0"      -> <<5, 3, 0>>
      [] version = "5.3"        -> <<5, 3>>
      [] version = "5.3.1"      -> <<5, 3, 1>>
      [] version = "5.2.9"      -> <<5, 2, 9>>
      [] version = "5.10.0"     -> <<5, 10, 0>>
      [] version = "6"          -> <<6>>
      [] version = "5.3.0.1"    -> <<5, 3, 0, 1>>
      [] version = "5.x.1"      -> <<5, 0, 1>>
      [] version = "5..1"       -> <<5, 0, 1>>
      [] version = "v5.4.0"     -> <<0, 4, 0>>
      [] version = "5.3.0-beta" -> <<5, 3, 0>>
      [] version = ""           -> <<0>>

\* seq padded with trailing zeros to length n
Padded(seq, n) == [i \in 1..n |-> IF i <= Len(seq) THEN seq[i] ELSE 0]

\* a > b in the lexicographic order of sequences of the same length
LexGreater(a, b) ==
    \E i \in DOMAIN a :
        /\ a[i] > b[i]
        /\ \A j \in 1..(i - 1) : a[j] = b[j]

\* latest > current, component by component after padding
NewerThan(latest, current) ==
    LET n == Max(Len(ComponentsAsNumbers(latest)), Len(ComponentsAsNumbers(current)))
    IN  LexGreater(Padded(ComponentsAsNumbers(latest), n),
                   Padded(ComponentsAsNumbers(current), n))

\* C15: isUpdateAvailable(current, latest) is the strict lexicographic
\* comparison latest > current of the component sequences read as numbers,
\* the shorter one padded with zeros and a component that is no number read
\* as 0; it is false when the two are equal after padding, false when latest
\* is absent, and never true in both directions.
C15_VersionOrder ==
    cmpDone =>
        /\ cmpLatest = Null => ~cmpForward
        /\ cmpLatest # Null =>
              /\ cmpForward <=> NewerThan(cmpLatest, cmpCurrent)
              /\ cmpBackward <=> NewerThan(cmpCurrent, cmpLatest)
              /\ Padded(ComponentsAsNumbers(cmpLatest), 4)
                     = Padded(ComponentsAsNumbers(cmpCurrent), 4) => ~cmpForward
        /\ ~(cmpForward /\ cmpBackward)

C15_Witness ==
    /\ cmpDone
    /\ cmpCurrent = "5.3.0"
    /\ cmpLatest = "5.3.0.1"
    /\ cmpForward
    /\ ~cmpBackward

-----------------------------------------------------------------------------
(* Claims about getEpubCheckVersion, checked under SpecVer *)

\* call i of getEpubCheckVersion is made in this step
VersionCallStep(i) == ver[i].call = "idle" /\ ver'[i].call = "called"

\* C13: a call of getEpubCheckVersion made when the version is memoized
\* returns the memoized value, and the call resolves no jar path, spawns no
\* subprocess, triggers no background check and changes nothing of the
\* version checker.
C13_MemoizedCallIsFree ==
    [][\A i \in VerCalls :
          (VersionCallStep(i) /\ cachedVersion # Null)
              => /\ ver'[i].outcome = [state |-> "fulfilled", value |-> cachedVersion]
                 /\ ver'[i].proc = "none"
                 /\ jarLookups' = jarLookups
                 /\ spawns' = spawns
                 /\ triggerCalls' = triggerCalls
                 /\ cachedVersion' = cachedVersion
                 /\ UNCHANGED vcVars]_vars

C13_Witness ==
    \E i \in VerCalls :
        /\ ver[i].memoHit
        /\ ver[i].outcome = [state |-> "fulfilled", value |-> "5.3.0"]
        /\ cachedVersion = "5.3.0"
        /\ jarLookups = 1
        /\ spawns = 1

\* the character at position k of s
CharAt(s, k) == SubSeq(s, k, k)

WhiteSpace == {" ", "\n", "\t", "\r"}

VersionChars == {"0", "1", "2", "3", "4", "5", "6", "7", "8", "9", "."}

\* the pattern EPUBCheck v([\d.]+) matches s at position p
MatchesAt(s, p) ==
    /\ p + 11 <= Len(s)
    /\ SubSeq(s, p, p + 10) = "EPUBCheck v"
    /\ CharAt(s, p + 11) \in VersionChars

PatternMatches(s) == \E p \in 1..Len(s) : MatchesAt(s, p)

\* v is the group of the leftmost match of the pattern in s
IsFirstGroup(s, v) ==
    \E p \in 1..Len(s) :
        /\ MatchesAt(s, p)
        /\ \A q \in 1..(p - 1) : ~MatchesAt(s, q)
        /\ \E e \in (p + 11)..Len(s) :
              /\ v = SubSeq(s, p + 11, e)
              /\ \A k \in (p + 11)..e : CharAt(s, k) \in VersionChars
              /\ e < Len(s) => CharAt(s, e + 1) \notin VersionChars

\* v is s without its leading and trailing white space, or "unknown" when
\* nothing is left
IsFallback(s, v) ==
    IF \A k \in 1..Len(s) : CharAt(s, k) \in WhiteSpace
    THEN v = "unknown"
    ELSE \E a, b \in 1..Len(s) :
            /\ a <= b
            /\ v = SubSeq(s, a, b)
            /\ CharAt(s, a) \notin WhiteSpace
            /\ CharAt(s, b) \notin WhiteSpace
            /\ \A k \in 1..(a - 1) : CharAt(s, k) \in WhiteSpace
            /\ \A k \in (b + 1)..Len(s) : CharAt(s, k) \in WhiteSpace

\* C14: when the subprocess ran and the pattern does not match its stdout,
\* the call is fulfilled with the trimmed stdout, or "unknown" when that is
\* empty, and the step memoizes nothing and triggers nothing: the memoized
\* version is always the group of a call whose stdout matched. A call is
\* rejected only when no subprocess ran: the jar was not found, or the spawn
\* failed.
C14_ParseMissFallsBack ==
    /\ [](\A i \in VerCalls :
            /\ (ver[i].proc = "closed" /\ ~PatternMatches(ver[i].stdout))
                  => /\ ver[i].outcome.state = "fulfilled"
                     /\ IsFallback(ver[i].stdout, ver[i].outcome.value)
            /\ ver[i].outcome.state = "rejected"
                  => \/ /\ ver[i].proc = "none"
                        /\ ver[i].outcome.value = JarNotFoundMessage
                     \/ /\ ver[i].proc \in {"failed", "failed-closed"}
                        /\ ver[i].stdout = ""
                        /\ \E msg \in SpawnErrors :
                               ver[i].outcome.value
                                   = "Failed to get EPUBCheck version: " \o msg)
    /\ [](cachedVersion # Null
            => \E i \in VerCalls :
                   /\ ver[i].proc = "closed"
                   /\ IsFirstGroup(ver[i].stdout, cachedVersion))
    /\ [][\A i \in VerCalls :
            (ver[i].proc = "spawned" /\ ver'[i].proc = "closed"
             /\ ~PatternMatches(ver[i].stdout))
                => /\ cachedVersion' = cachedVersion
                   /\ triggerCalls' = triggerCalls]_vars

C14_Witness ==
    \E i \in VerCalls :
        /\ ver[i].proc = "closed"
        /\ ver[i].stdout = "EPUBCheck v \n"
        /\ ver[i].outcome = [state |-> "fulfilled", value |-> "EPUBCheck v"]
        /\ cachedVersion = Null

\* a step of the background check: it is triggered, its fetch moves on, or it
\* concludes
BackgroundStep ==
    \/ triggerCalls' # triggerCalls
    \/ fetchStage' # fetchStage
    \/ fetchesDone' # fetchesDone

\* the outcome of call i is the one its own inputs give: the memoized version,
\* the jar lookup, the spawn and the stdout of its subprocess
OwnVersionOutcome(i) ==
    CASE ver[i].call = "idle" -> ver[i].outcome.state = "pending"
      [] ver[i].call = "called" /\ ver[i].memoHit ->
            /\ ver[i].outcome.state = "fulfilled"
            /\ \E j \in VerCalls : /\ ver[j].proc = "closed"
                                   /\ IsFirstGroup(ver[j].stdout, ver[i].outcome.value)
      [] ver[i].call = "called" /\ ~ver[i].memoHit /\ ver[i].proc = "none" ->
            ver[i].outcome = [state |-> "rejected", value |-> JarNotFoundMessage]
      [] ver[i].proc = "spawned" -> ver[i].outcome.state = "pending"
      [] ver[i].proc \in {"failed", "failed-closed"} ->
            /\ ver[i].outcome.state = "rejected"
            /\ \E msg \in SpawnErrors :
                   ver[i].outcome.value = "Failed to get EPUBCheck version: " \o msg
      [] ver[i].proc = "closed" ->
            /\ ver[i].outcome.state = "fulfilled"
            /\ IF PatternMatches(ver[i].stdout)
               THEN IsFirstGroup(ver[i].stdout, ver[i].outcome.value)
               ELSE IsFallback(ver[i].stdout, ver[i].outcome.value)

\* C20: whatever the cache read, the fetch and the cache write do, and while
\* the fetch has not completed, no call of the background check throws, the
\* outcome of every getEpubCheckVersion call is the one its own inputs give,
\* and a step of the background check changes neither a promise that is
\* settled nor anything runEpubCheck reads or writes.
C20_AdvisoryNeverDisrupts ==
    /\ [](~thrown /\ \A i \in VerCalls : OwnVersionOutcome(i))
    /\ [][BackgroundStep
            => /\ \A i \in VerCalls :
                     ver[i].outcome.state # "pending"
                         => ver'[i].outcome = ver[i].outcome
               /\ UNCHANGED runVars]_vars

C20_Witness ==
    \E i \in VerCalls :
        /\ ver[i].proc = "closed"
        /\ ver[i].outcome = [state |-> "fulfilled", value |-> "5.3.0"]
        /\ diskCache = GarbageFile
        /\ versionCheckPromise # Null
        /\ fetchStage = "body"

\* the 'close' handler of call i runs in this step
VersionCloseStep(i) ==
    /\ ver[i].proc \in {"spawned", "failed"}
    /\ ver'[i].proc \in {"closed", "failed-closed"}

\* the number of times cachedVersion has been assigned
MemoWrites == Cardinality({i \in VerCalls : ver[i].closeMatch = "hit"})

\* C23 as stated: the memoized version is assigned at most once, and never
\* changes afterwards, calls started before the first one completed included.
C23_SetAtMostOnce ==
    /\ [](MemoWrites <= 1)
    /\ [][cachedVersion # Null => cachedVersion' = cachedVersion]_vars

\* C23 as amended: once the memoized version is set its value never changes,
\* the engine printing the same version in every run; it is assigned again,
\* with that value, by every call that was started before it was set and whose
\* stdout matches, and never by a call made after it was set.
C23_MemoValueNeverChanges ==
    /\ [][cachedVersion # Null => cachedVersion' = cachedVersion]_vars
    /\ [][\A i \in VerCalls :
            (VersionCloseStep(i) /\ ver[i].proc = "spawned"
             /\ PatternMatches(ver[i].stdout))
                => /\ ver'[i].closeMatch = "hit"
                   /\ IsFirstGroup(ver[i].stdout, cachedVersion')]_vars
    /\ [](\A i \in VerCalls :
            /\ ver[i].memoHit => ver[i].closeMatch = "none" /\ ver[i].proc = "none"
            /\ ver[i].closeMatch = "hit" => ver[i].outcome.value = cachedVersion)

C23_Witness ==
    /\ MemoWrites = 2
    /\ cachedVersion = "5.3.0"
    /\ \A i \in 1..2 : ver[i].outcome = [state |-> "fulfilled", value |-> "5.3.0"]

\* C24: checkForUpdatesAsync is called in exactly the steps in which a
\* 'close' handler finds the pattern in its stdout (not on a miss, not on a
\* failed spawn, not on a memoized hit), and in that same step the promise is
\* fulfilled with the parsed version, whether or not the step has left a fetch
\* in flight; nothing requires the fetch ever to complete.
C24_TriggerOnMatchOnly ==
    /\ [][/\ TriggerStep
              <=> \E i \in VerCalls :
                      VersionCloseStep(i) /\ PatternMatches(ver[i].stdout)
          /\ \A i \in VerCalls :
                (VersionCloseStep(i) /\ PatternMatches(ver[i].stdout))
                    => /\ ver'[i].outcome.state = "fulfilled"
                       /\ IsFirstGroup(ver[i].stdout, ver'[i].outcome.value)
          /\ \A i \in VerCalls :
                (\/ VersionCallStep(i)
                 \/ VersionCloseStep(i) /\ ver[i].proc = "failed"
                 \/ VersionCloseStep(i) /\ ver'[i].closeMatch = "miss")
                    => ~TriggerStep]_vars
    /\ [](\A i \in VerCalls :
            (ver[i].proc = "closed" /\ versionCheckPromise # Null)
                => ver[i].outcome.state = "fulfilled")

C24_Witness ==
    \E i \in VerCalls :
        /\ ver[i].proc = "closed"
        /\ ver[i].closeMatch = "hit"
        /\ ver[i].outcome = [state |-> "fulfilled", value |-> "5.3.0"]
        /\ triggerCalls = 1
        /\ fetchCalls = 1
        /\ fetchesDone = 0
        /\ fetchStage = "request"

\* the version is memoized and no call awaits the 'close' of its subprocess
VersionQueriesDone ==
    /\ cachedVersion # Null
    /\ \A i \in VerCalls : ver[i].proc \notin {"spawned", "failed"}

\* C27: once the version is memoized and the calls in progress have been
\* closed, that stays so, and no step calls checkForUpdatesAsync, starts a
\* fetch or reads the disk cache, however much time passes and whatever the
\* one fetch returned.
C27_NoTriggerAfterMemo ==
    [][VersionQueriesDone
         => /\ VersionQueriesDone'
            /\ triggerCalls' = triggerCalls
            /\ fetchCalls' = fetchCalls
            /\ diskReads' = diskReads
            /\ cachedVersion' = cachedVersion]_vars

C27_Witness ==
    /\ VersionQueriesDone
    /\ \E i \in VerCalls : ver[i].memoHit
    /\ fetchCalls = 1
    /\ fetchesDone = 1
    /\ fetchReturned = Null
    /\ versionCheckPromise = Null
    /\ clock - beforeFetch.at >= 24 * HourMs

\* t occurs in s
Contains(s, t) ==
    \E k \in 1..(Len(s) - Len(t) + 1) : SubSeq(s, k, k + Len(t) - 1) = t

\* C21 as stated: a get_version call made when the version checker holds a
\* latest version greater than the memoized engine version gets a response
\* that carries the update advisory.
C21_ResponseCarriesAdvisory ==
    [][\A i \in VerCalls :
          (/\ VersionCallStep(i)
           /\ cachedVersion # Null
           /\ isUpdateAvailable(cachedVersion, cachedLatestVersion))
              => Contains(handleGetVersion(ver'[i].outcome),
                          "Note: EPUBCheck " \o cachedLatestVersion \o " is available")]_vars

\* C25 as stated: two fetches are never started less than 24 hours apart.
C25_FetchesADayApart ==
    [][(fetchCalls' = fetchCalls + 1 /\ fetchCalls >= 1)
         => clock - beforeFetch.at >= 24 * HourMs]_vars

\* C28 as stated: once a fetch has returned a version, no call of
\* checkForUpdatesAsync replaces the in-memory latest version with null or
\* with a lower version.
C28_FetchedVersionNeverRegresses ==
    [][(TriggerStep /\ writeResult # "none" /\ cachedLatestVersion # Null)
         => /\ cachedLatestVersion' # Null
            /\ ~isUpdateAvailable(cachedLatestVersion', cachedLatestVersion)]_vars

=============================================================================
